---------------------------- MODULE Spec2Model ----------------------------
(***************************************************************************)
(* Model of the echo server's insight engine (src/server.py):              *)
(*   cosine_similarity, check_insight, cross_date_insight and conversation *)
(*   with its reply stream.                                                *)
(*                                                                         *)
(* A request is handled by one coroutine; its awaits (embedding and        *)
(* completion calls) are the only suspension points, so each action below  *)
(* is one outbound call together with the straight-line code that follows  *)
(* it up to the next call.  Any exception raised inside the handler's      *)
(* outer try block reaches its `except Exception` and becomes HTTP 500.    *)
(*                                                                         *)
(* Abstractions.  A note is its id and its optional embedding; content and *)
(* createdAt only flow into prompt text.  Note ids are unique within the   *)
(* history list.  Embedding vectors have integer components; a similarity  *)
(* is kept as the exact rational <<n, d>> = sign(dot) * dot^2 /            *)
(* (|a|^2 * |b|^2), the signed square of the cosine, which orders exactly  *)
(* as the cosine does.  The embedding provider returns one vector per      *)
(* input text.  A completion's text is a fence wrapper and a body class.   *)
(***************************************************************************)
EXTENDS Integers, Sequences, FiniteSets, TLC

VARIABLES
    op,                 \* which endpoint handles the request
    api_key,            \* module global api_key: TRUE iff configured
    request,            \* the request body
    pc,                 \* position of the handler coroutine
    calls,              \* outbound provider calls issued so far, in order
    bound,              \* local names of check_insight that are bound
    current_embedding,
    today_embeddings,
    single_point_worth,
    thoughts_needing_embedding,
    missing_embeddings_response,    \* .data of the batched history embedding
    history_with_embeddings,
    computed_embeddings_for_frontend,
    related_thoughts,
    history_worth,
    history_question,
    history_thinking,
    worth_talking,
    final_question,
    final_thinking,
    echoes,
    summary,
    response,
    single_point_result,    \* class of the single-note completion's text
    history_result,         \* class of the echo completion's text
    messages,               \* conversation: the messages sent to the provider
    provider_chunks,        \* conversation: chunks the provider streamed so far
    full_reply,             \* conversation.generate: full_reply
    events                  \* conversation.generate: the SSE events yielded

\* the variables of conversation and of its reply stream
conv_vars == <<messages, provider_chunks, full_reply, events>>

vars == <<op, api_key, request, pc, calls, bound, current_embedding,
          today_embeddings, single_point_worth, thoughts_needing_embedding,
          missing_embeddings_response, history_with_embeddings, computed_embeddings_for_frontend,
          related_thoughts, history_worth, history_question,
          history_thinking, worth_talking, final_question, final_thinking,
          echoes, summary, response, single_point_result, history_result,
          conv_vars>>

-----------------------------------------------------------------------------
(* Bounds of the model *)

MaxHist == 3        \* longest historyThoughts list of a request
MaxToday == 2       \* longest todayThoughts list of a request
MaxRankHist == 6    \* longest candidate list of the ranking-only specification
RankToday == 1      \* todayThoughts of the ranking-only specification
MaxConv == 2        \* longest dialogue history of a conversation request
MaxChunks == 2      \* most chunks the provider streams in one reply
MaxChunkLen == 2    \* longest content of one chunk, in tokens

(* Program constants *)

TopK == 5           \* related_thoughts[:5], best_matches[:5]

None == "None"

(* Embedding vectors.  cos(VecA,VecB) = 2/(2*2) = 0.5 exactly, also in      *)
(* floating point; cos(VecA,VecC) = cos(VecB,VecC) = 1/sqrt(2);             *)
(* VecShort has another dimensionality.                                     *)
VecA == <<2, 0, 0, 0>>
VecB == <<1, 1, 1, 1>>
VecC == <<1, 1, 0, 0>>
VecShort == <<1, 1>>

EmbedVecs == {VecA, VecB}                       \* what the provider returns
SuppliedVecs == {VecA, VecB, VecC, VecShort}    \* what a client may send
RankVecs == {VecA, VecB, VecC}

-----------------------------------------------------------------------------
(* cosine_similarity *)

RECURSIVE DotFrom(_, _, _)
DotFrom(vec1, vec2, i) ==
    IF i > Len(vec1) THEN 0
    ELSE vec1[i] * vec2[i] + DotFrom(vec1, vec2, i + 1)

dot_product(vec1, vec2) == DotFrom(vec1, vec2, 1)

SimZero == <<0, 1>>

cosine_similarity(vec1, vec2) ==
    IF Len(vec1) # Len(vec2) THEN SimZero
    ELSE LET d  == dot_product(vec1, vec2)
             n1 == dot_product(vec1, vec1)
             n2 == dot_product(vec2, vec2)
         IN IF n1 = 0 \/ n2 = 0 THEN SimZero
            ELSE <<(IF d < 0 THEN -1 ELSE 1) * d * d, n1 * n2>>

\* s > t on similarities
SimGT(s, t) == s[1] * t[2] > t[1] * s[2]

\* 0.5, as the signed square 1/4
similarity_threshold == <<1, 4>>


-----------------------------------------------------------------------------
(* list.sort(key=lambda x: x['similarity'], reverse=True): a stable sort,   *)
(* so elements of equal similarity keep their order.  x goes behind every   *)
(* element already placed whose similarity is not smaller than its own.     *)

\* mutant: an unstable sort, x goes ahead of the elements equal to it
InsertBySimilarity_Unstable(sorted, x) ==
    LET k == Cardinality({i \in DOMAIN sorted :
                            SimGT(sorted[i].similarity, x.similarity)})
    IN SubSeq(sorted, 1, k) \o <<x>> \o SubSeq(sorted, k + 1, Len(sorted))

InsertBySimilarity(sorted, x) ==
    LET k == Cardinality({i \in DOMAIN sorted :
                            ~SimGT(x.similarity, sorted[i].similarity)})
    IN SubSeq(sorted, 1, k) \o <<x>> \o SubSeq(sorted, k + 1, Len(sorted))

RECURSIVE SortFrom(_, _, _)
SortFrom(list, i, sorted) ==
    IF i > Len(list) THEN sorted
    ELSE SortFrom(list, i + 1, InsertBySimilarity(sorted, list[i]))

SortBySimilarityDesc(list) == SortFrom(list, 1, <<>>)

\* list[:n]
Take(list, n) == SubSeq(list, 1, IF Len(list) < n THEN Len(list) ELSE n)

\* mutant: the self-exclusion test is dropped
IsSelf_Never(hist_item, thought_id) == FALSE

\* `if hist_item['thought'].id == thought.id: continue`
IsSelf(hist_item, thought_id) == hist_item.thought = thought_id

\* mutant: >= in place of >
ExceedsThreshold_OrEqual(similarity) == ~SimGT(similarity_threshold, similarity)

\* `if similarity > similarity_threshold:`
ExceedsThreshold(similarity) == SimGT(similarity, similarity_threshold)

(* check_insight, the loop over history_with_embeddings: skip the current   *)
(* thought's own id, keep a candidate iff similarity > similarity_threshold *)
RECURSIVE RelatedFrom(_, _, _, _)
RelatedFrom(embedding, history, thought_id, i) ==
    IF i > Len(history) THEN <<>>
    ELSE LET hist_item  == history[i]
             similarity == cosine_similarity(embedding, hist_item.embedding)
             rest       == RelatedFrom(embedding, history, thought_id, i + 1)
         IN IF IsSelf(hist_item, thought_id) THEN rest
            ELSE IF ExceedsThreshold(similarity)
                 THEN <<[thought |-> hist_item.thought,
                         similarity |-> similarity]>> \o rest
                 ELSE rest

\* check_insight: related_thoughts after the sort and the [:5]
RelatedThoughts(embedding, history, thought_id) ==
    Take(SortBySimilarityDesc(RelatedFrom(embedding, history, thought_id, 1)),
         TopK)

(* cross_date_insight, the same loop for one today thought                  *)
RECURSIVE BestFrom(_, _, _, _)
BestFrom(today_emb, history, today_id, i) ==
    IF i > Len(history) THEN <<>>
    ELSE LET hist_item  == history[i]
             similarity == cosine_similarity(today_emb, hist_item.embedding)
             rest       == BestFrom(today_emb, history, today_id, i + 1)
         IN IF IsSelf(hist_item, today_id) THEN rest
            ELSE IF ExceedsThreshold(similarity)
                 THEN <<[historyThought |-> hist_item.thought,
                         similarity |-> similarity]>> \o rest
                 ELSE rest

\* cross_date_insight: best_matches after the sort and the [:5]
BestMatches(today_emb, history, today_id) ==
    Take(SortBySimilarityDesc(BestFrom(today_emb, history, today_id, 1)), TopK)

(* cross_date_insight: the echoes list, one entry per today thought that    *)
(* has at least one match, in todayThoughts order                           *)
RECURSIVE EchoesFrom(_, _, _, _)
EchoesFrom(today, embeddings, history, k) ==
    IF k > Len(today) THEN <<>>
    ELSE LET today_thought == today[k]
             best_matches  == BestMatches(embeddings[today_thought.id],
                                          history, today_thought.id)
             rest          == EchoesFrom(today, embeddings, history, k + 1)
         IN IF best_matches # <<>>
            THEN <<[todayThought |-> today_thought.id,
                    relatedThoughts |-> best_matches]>> \o rest
            ELSE rest

-----------------------------------------------------------------------------
(* History resolution: notes that carry an embedding are used as sent, the  *)
(* others are collected and embedded in one batched call.  An embedding     *)
(* that is None or [] is falsy in `if hist_thought.embedding`; <<>> stands  *)
(* for both.                                                                *)

HasEmbedding(hist_thought) == hist_thought.embedding # <<>>

RECURSIVE SuppliedFrom(_, _)
SuppliedFrom(historyThoughts, i) ==
    IF i > Len(historyThoughts) THEN <<>>
    ELSE IF HasEmbedding(historyThoughts[i])
         THEN <<[thought |-> historyThoughts[i].id,
                 embedding |-> historyThoughts[i].embedding]>>
              \o SuppliedFrom(historyThoughts, i + 1)
         ELSE SuppliedFrom(historyThoughts, i + 1)

RECURSIVE NeedingFrom(_, _)
NeedingFrom(historyThoughts, i) ==
    IF i > Len(historyThoughts) THEN <<>>
    ELSE IF HasEmbedding(historyThoughts[i])
         THEN NeedingFrom(historyThoughts, i + 1)
         ELSE <<historyThoughts[i].id>> \o NeedingFrom(historyThoughts, i + 1)

\* mutant: every computed entry carries the first vector of the batch
ComputedEntries_First(needing, data) ==
    [i \in 1..Len(needing) |-> [thoughtId |-> needing[i], embedding |-> data[1]]]

\* the entries appended to computed_embeddings_for_frontend by the zip loop
ComputedEntries(needing, data) ==
    [i \in 1..Len(needing) |-> [thoughtId |-> needing[i], embedding |-> data[i]]]

\* the entries appended to history_with_embeddings by the zip loop
ComputedHistory(needing, data) ==
    [i \in 1..Len(needing) |-> [thought |-> needing[i], embedding |-> data[i]]]

\* mutant: one embeddings call per note that lacks an embedding
HistoryEmbeddingCalls_PerNote(needing) ==
    [i \in 1..Len(needing) |-> "embed_history"]

\* the embeddings calls the resolution issues for `needing`
HistoryEmbeddingCalls(needing) ==
    IF needing # <<>> THEN <<"embed_history">> ELSE <<>>

\* responses the provider may give to a batch of n texts
EmbeddingData(n) == [1..n -> EmbedVecs]


-----------------------------------------------------------------------------
(* Completion texts.  The text a completion returns is modelled by its      *)
(* wrapper (none, a closed ```json fence, a closed ``` fence, or an opening *)
(* fence that is never closed) and by the class of the text inside.         *)

Fences == {"none", "json", "plain", "unclosed"}

\* bodies: a JSON object with worthTalking true / false / absent, a JSON
\* array, or text that is not JSON
VerdictBodies == {"obj_true", "obj_false", "obj_nokey", "array", "garbage"}

SinglePointTexts == [fence : Fences, body : VerdictBodies]

\* the echo verdict may also carry "question" and "thinking"
EchoTexts == [fence : Fences, body : VerdictBodies, question : BOOLEAN]

(* The fence stripping: with a closed fence the slice is the inside; with   *)
(* an unclosed one find() returns -1 and the slice [json_start:-1] loses    *)
(* the last character of the body, which no longer decodes.                 *)
StripFence(text) ==
    IF text.fence = "unclosed" THEN "garbage" ELSE text.body

\* json.loads succeeds
JsonDecodes(s) == s \in {"obj_true", "obj_false", "obj_nokey", "array"}

\* data.get(...) works: the decoded value is a dict
IsDict(s) == s \in {"obj_true", "obj_false", "obj_nokey"}

\* data.get("worthTalking", False), or FALSE through the bare except
ParsedWorth(text) ==
    LET s == StripFence(text)
    IN IF JsonDecodes(s) /\ IsDict(s) THEN s = "obj_true" ELSE FALSE

\* the exception raised inside the parse's try block, if any
ParseError(text) ==
    LET s == StripFence(text)
    IN IF ~JsonDecodes(s) THEN "JSONDecodeError"
       ELSE IF ~IsDict(s) THEN "AttributeError"
       ELSE "none"

\* mutant: `except json.JSONDecodeError:` in place of the bare except
ExceptCatches_JsonOnly(error) == error = "JSONDecodeError"

\* the bare `except:` around the parse catches whatever is raised
ExceptCatches(error) == TRUE

\* what the text is, whatever the parse makes of it: a JSON object, maybe
\* inside a closed fence, or something that does not decode to a verdict
TextClass(text) ==
    IF text.fence # "unclosed"
       /\ text.body \in {"obj_true", "obj_false", "obj_nokey"}
    THEN "verdict" ELSE "undecodable"

(* json.dumps({"relatedThoughts": related_thoughts, "reason": ...}): every  *)
(* entry of related_thoughts holds a pydantic Thought under 'thought',      *)
(* which json.dumps cannot serialise, so the call raises TypeError as soon  *)
(* as the list has an entry.                                                *)
JsonDumpsRaises(related) == related # <<>>

-----------------------------------------------------------------------------
(* Responses *)

NoResponse ==
    [status |-> 0, detail |-> None, worthTalking |-> FALSE, question |-> None,
     thinking |-> None, echoes |-> <<>>, summary |-> None,
     computedEmbeddings |-> [present |-> FALSE, value |-> <<>>]]

\* mutant: the error response carries the fingerprints computed so far
HttpError_Partial(status, detail) ==
    [NoResponse EXCEPT !.status = status, !.detail = detail,
                       !.computedEmbeddings =
                           [present |-> TRUE,
                            value |-> computed_embeddings_for_frontend]]

\* raise HTTPException(status_code=..., detail=...)
HttpError(status, detail) ==
    [NoResponse EXCEPT !.status = status, !.detail = detail]

\* `computed_embeddings_for_frontend if computed_embeddings_for_frontend else None`
\* (an Optional list is the pair of its presence and its value)
OrNone(list) == [present |-> list # <<>>, value |-> list]


-----------------------------------------------------------------------------
(* Requests *)

\* historyThoughts of length n: note i has id i and an embedding or none
Histories(n, vecs) ==
    {[i \in 1..n |-> [id |-> i, embedding |-> e[i]]] : e \in [1..n -> vecs]}

\* todayThoughts of length m, ids shift+1 .. shift+m
Todays(m, shift) == [k \in 1..m |-> [id |-> shift + k]]

CheckInsightRequests ==
    {[thought |-> t, todayThoughts |-> <<>>, historyThoughts |-> h] :
        t \in 1..(MaxHist + 1),
        h \in UNION {Histories(n, SuppliedVecs \cup {<<>>}) : n \in 0..MaxHist}}

(* Requests of conversation *)

(* Text is a sequence of tokens: an ordinary character "x", the newline     *)
(* character, and the nine characters [NEWLINE] taken as one token.         *)
Tokens == {"x", "\n", "[NEWLINE]"}

\* the values of msg['role'] a client may send; None: the key is absent
Roles == {"user", "assistant", "ai", "system", None}

\* the values of msg['content']; "" also stands for a message without the key
Contents == {"", "x"}

\* the dialogue histories of at most n messages
RECURSIVE Conversations(_)
Conversations(n) ==
    IF n = 0 THEN {<<>>}
    ELSE Conversations(n - 1)
         \cup {Append(c, [role |-> r, content |-> t]) :
                  c \in {d \in Conversations(n - 1) : Len(d) = n - 1},
                  r \in Roles, t \in Contents}

ConversationRequests ==
    {[conversation |-> c, currentMessage |-> m] :
        c \in Conversations(MaxConv), m \in {"", "m"}}

\* today's notes are either among the history notes (shift 0) or new ids
CrossDateInsightRequests ==
    {[thought |-> 0, todayThoughts |-> Todays(m, shift), historyThoughts |-> h] :
        m \in 0..MaxToday, shift \in {0, MaxHist},
        h \in UNION {Histories(n, SuppliedVecs \cup {<<>>}) : n \in 0..MaxHist}}

Locals ==
    /\ calls = <<>>
    /\ bound = {}
    /\ current_embedding = <<>>
    /\ today_embeddings = <<>>
    /\ single_point_worth = FALSE
    /\ thoughts_needing_embedding = <<>>
    /\ missing_embeddings_response = <<>>
    /\ history_with_embeddings = <<>>
    /\ computed_embeddings_for_frontend = <<>>
    /\ related_thoughts = <<>>
    /\ history_worth = FALSE
    /\ history_question = None
    /\ history_thinking = None
    /\ worth_talking = FALSE
    /\ final_question = None
    /\ final_thinking = None
    /\ echoes = <<>>
    /\ summary = None
    /\ response = NoResponse
    /\ single_point_result = None
    /\ history_result = None
    /\ messages = <<>>
    /\ provider_chunks = <<>>
    /\ full_reply = <<>>
    /\ events = <<>>

Init ==
    /\ op \in {"check_insight", "cross_date_insight", "conversation"}
    /\ api_key \in BOOLEAN
    /\ request \in (IF op = "check_insight" THEN CheckInsightRequests
                    ELSE IF op = "cross_date_insight"
                    THEN CrossDateInsightRequests
                    ELSE ConversationRequests)
    /\ pc = "start"
    /\ Locals

-----------------------------------------------------------------------------
(* check_insight *)

\* mutant: a completion call that is made a second time
CompletionCall_Retried(kind) == <<kind, kind>>

\* `await client.chat.completions.create(...)`: one call, in no retry loop
CompletionCall(kind) == <<kind>>

\* mutant: the handlers go on without a key
ApiKeyMissing_Never == FALSE

\* `if not api_key:` at the head of each handler
ApiKeyMissing == ~api_key

\* the handler's `except Exception`: HTTP 500 carrying str(e)
Raise(detail) ==
    /\ response' = HttpError(500, detail)
    /\ pc' = "done"

\* step 1: the api_key test and the embedding of the current thought
CI_EmbedCurrent ==
    /\ op = "check_insight" /\ pc = "start"
    /\ UNCHANGED <<op, api_key, request, conv_vars,
                   single_point_result, history_result,
                   bound, today_embeddings,
                   single_point_worth, thoughts_needing_embedding,
                   missing_embeddings_response,
                   history_with_embeddings, computed_embeddings_for_frontend,
                   related_thoughts, history_worth, history_question,
                   history_thinking, worth_talking, final_question,
                   final_thinking, echoes, summary>>
    /\ IF ApiKeyMissing
       THEN /\ Raise("api_key_not_configured")
            /\ UNCHANGED <<calls, current_embedding>>
       ELSE /\ calls' = Append(calls, "embed_thought")
            /\ \/ /\ Raise("embeddings_create_failed")
                  /\ UNCHANGED current_embedding
               \/ /\ \E embedding \in EmbedVecs : current_embedding' = embedding
                  /\ pc' = "single_point"
                  /\ UNCHANGED response

\* step 2: the single-note completion and the parse of its verdict
CI_SinglePointCheck ==
    /\ op = "check_insight" /\ pc = "single_point"
    /\ calls' = calls \o CompletionCall("complete_single_point")
    /\ UNCHANGED <<op, api_key, request, conv_vars, history_result,
                   current_embedding, today_embeddings,
                   thoughts_needing_embedding,
                   missing_embeddings_response, history_with_embeddings,
                   computed_embeddings_for_frontend, related_thoughts,
                   history_worth, history_question, history_thinking,
                   worth_talking, final_question, final_thinking, echoes,
                   summary>>
    /\ \/ /\ Raise("completions_create_failed")
          /\ UNCHANGED <<single_point_worth, bound, single_point_result>>
       \/ \E text \in SinglePointTexts :
            /\ single_point_result' = TextClass(text)
            /\ bound' = IF JsonDecodes(StripFence(text))
                        THEN bound \cup {"single_point_data"} ELSE bound
            /\ IF ParseError(text) # "none" /\ ~ExceptCatches(ParseError(text))
               THEN /\ Raise(ParseError(text))
                    /\ UNCHANGED single_point_worth
               ELSE /\ single_point_worth' = ParsedWorth(text)
                    /\ pc' = "resolve_history"
                    /\ UNCHANGED response

(* step 3, first half: partition the history and embed the notes that lack  *)
(* an embedding, in one batched call.  With an empty historyThoughts the    *)
(* whole `if request.historyThoughts:` block is skipped.                    *)
CI_ResolveHistory ==
    /\ op = "check_insight" /\ pc = "resolve_history"
    /\ UNCHANGED <<op, api_key, request, conv_vars,
                   single_point_result, history_result,
                   bound, current_embedding,
                   today_embeddings, single_point_worth, related_thoughts,
                   history_worth, history_question, history_thinking,
                   worth_talking, final_question, final_thinking, echoes,
                   summary>>
    /\ IF request.historyThoughts = <<>>
       THEN /\ pc' = "merge"
            /\ UNCHANGED <<calls, thoughts_needing_embedding,
                   missing_embeddings_response,
                           history_with_embeddings,
                           computed_embeddings_for_frontend, response>>
       ELSE LET needing  == NeedingFrom(request.historyThoughts, 1)
                supplied == SuppliedFrom(request.historyThoughts, 1)
            IN /\ thoughts_needing_embedding' = needing
               /\ calls' = calls \o HistoryEmbeddingCalls(needing)
               /\ \/ /\ needing # <<>>
                     /\ Raise("embeddings_create_failed")
                     /\ history_with_embeddings' = supplied
                     /\ UNCHANGED <<computed_embeddings_for_frontend,
                                    missing_embeddings_response>>
                  \/ \E data \in EmbeddingData(Len(needing)) :
                       /\ missing_embeddings_response' = data
                       /\ computed_embeddings_for_frontend'
                            = ComputedEntries(needing, data)
                       /\ history_with_embeddings'
                            = supplied \o ComputedHistory(needing, data)
                       /\ pc' = "rank"
                       /\ UNCHANGED response

\* step 3, second half: the ranking, then the defaults of the echo verdict
CI_Rank ==
    /\ op = "check_insight" /\ pc = "rank"
    /\ related_thoughts' = RelatedThoughts(current_embedding,
                                           history_with_embeddings,
                                           request.thought)
    /\ history_worth' = FALSE
    /\ history_question' = None
    /\ history_thinking' = None
    /\ bound' = bound \cup {"history_worth", "history_question",
                            "history_thinking"}
    /\ pc' = IF related_thoughts' # <<>> THEN "echo_check" ELSE "merge"
    /\ UNCHANGED <<op, api_key, request, conv_vars,
                   single_point_result, history_result,
                   calls, current_embedding,
                   today_embeddings, single_point_worth,
                   thoughts_needing_embedding,
                   missing_embeddings_response, history_with_embeddings,
                   computed_embeddings_for_frontend, worth_talking,
                   final_question, final_thinking, echoes, summary, response>>

(* step 4: the echo completion and the parse of its verdict.  history_worth *)
(* and history_question are assigned before json.dumps raises; the bare     *)
(* except swallows the TypeError and history_thinking keeps its None.       *)
CI_EchoCheck ==
    /\ op = "check_insight" /\ pc = "echo_check"
    /\ calls' = calls \o CompletionCall("complete_echo")
    /\ UNCHANGED <<op, api_key, request, conv_vars, single_point_result,
                   bound, current_embedding,
                   today_embeddings, single_point_worth,
                   thoughts_needing_embedding,
                   missing_embeddings_response, history_with_embeddings,
                   computed_embeddings_for_frontend, related_thoughts,
                   worth_talking, final_question, final_thinking, echoes,
                   summary>>
    /\ \/ /\ Raise("completions_create_failed")
          /\ UNCHANGED <<history_worth, history_question, history_thinking,
                         history_result>>
       \/ \E text \in EchoTexts :
            /\ history_result' = TextClass(text)
            /\ IF ParseError(text) # "none" /\ ~ExceptCatches(ParseError(text))
               THEN /\ Raise(ParseError(text))
                    /\ UNCHANGED <<history_worth, history_question,
                                   history_thinking>>
               ELSE /\ history_worth' = ParsedWorth(text)
                    /\ IF ParsedWorth(text)
                       THEN /\ history_question' = IF text.question
                                                   THEN "echo_question" ELSE ""
                            /\ history_thinking' =
                                  IF JsonDumpsRaises(related_thoughts)
                                  THEN history_thinking ELSE "echo_thinking"
                       ELSE UNCHANGED <<history_question, history_thinking>>
                    /\ pc' = "merge"
                    /\ UNCHANGED response

\* reading a local that was never assigned raises UnboundLocalError
IsBound(name) == name \in bound

\* mutant: the question-only call no longer looks at the echo verdict
NeedsSingleQuestion_Always(single_worth, echo_worth) == single_worth

\* mutant: the question-only call no longer looks at the single-note verdict
NeedsSingleQuestion_IgnoresSingle(single_worth, echo_worth) == ~echo_worth

\* `if single_point_worth and not history_worth:`
NeedsSingleQuestion(single_worth, echo_worth) == single_worth /\ ~echo_worth

(* step 5: the merge.  `single_point_worth or history_worth` reads          *)
(* history_worth only when single_point_worth is false; the next line reads *)
(* it always.                                                               *)
CI_Merge ==
    /\ op = "check_insight" /\ pc = "merge"
    /\ UNCHANGED <<op, api_key, request, conv_vars,
                   single_point_result, history_result,
                   calls, bound, current_embedding,
                   today_embeddings, single_point_worth,
                   thoughts_needing_embedding,
                   missing_embeddings_response, history_with_embeddings,
                   computed_embeddings_for_frontend, related_thoughts,
                   history_worth, history_question, history_thinking, echoes,
                   summary>>
    /\ IF ~IsBound("history_worth")
       THEN /\ Raise("UnboundLocalError_history_worth")
            /\ worth_talking' = IF single_point_worth THEN TRUE
                                ELSE worth_talking
            /\ UNCHANGED <<final_question, final_thinking>>
       ELSE /\ worth_talking' = (single_point_worth \/ history_worth)
            /\ final_question' = IF history_worth THEN history_question
                                 ELSE None
            /\ final_thinking' = IF history_worth THEN history_thinking
                                 ELSE None
            /\ pc' = IF NeedsSingleQuestion(single_point_worth, history_worth)
                     THEN "question_only" ELSE "return"
            /\ UNCHANGED response

\* step 5, the question-only completion
CI_QuestionOnly ==
    /\ op = "check_insight" /\ pc = "question_only"
    /\ calls' = calls \o CompletionCall("complete_question")
    /\ UNCHANGED <<op, api_key, request, conv_vars,
                   single_point_result, history_result,
                   bound, current_embedding,
                   today_embeddings, single_point_worth,
                   thoughts_needing_embedding,
                   missing_embeddings_response, history_with_embeddings,
                   computed_embeddings_for_frontend, related_thoughts,
                   history_worth, history_question, history_thinking,
                   worth_talking, echoes, summary>>
    /\ \/ /\ Raise("completions_create_failed")
          /\ UNCHANGED <<final_question, final_thinking>>
       \/ /\ final_question' = "single_question"
          /\ IF IsBound("single_point_data")
             THEN /\ final_thinking' = "single_point_thinking"
                  /\ pc' = "return"
                  /\ UNCHANGED response
             ELSE /\ Raise("UnboundLocalError_single_point_data")
                  /\ UNCHANGED final_thinking

\* return CheckInsightResponse(...)
CI_Return ==
    /\ op = "check_insight" /\ pc = "return"
    /\ response' = [NoResponse EXCEPT
                      !.status = 200,
                      !.worthTalking = worth_talking,
                      !.question = final_question,
                      !.thinking = final_thinking,
                      !.computedEmbeddings =
                          OrNone(computed_embeddings_for_frontend)]
    /\ pc' = "done"
    /\ UNCHANGED <<op, api_key, request, conv_vars,
                   single_point_result, history_result,
                   calls, bound, current_embedding,
                   today_embeddings, single_point_worth,
                   thoughts_needing_embedding,
                   missing_embeddings_response, history_with_embeddings,
                   computed_embeddings_for_frontend, related_thoughts,
                   history_worth, history_question, history_thinking,
                   worth_talking, final_question, final_thinking, echoes,
                   summary>>


-----------------------------------------------------------------------------
(* cross_date_insight *)

\* {t.id: emb.embedding for t, emb in zip(request.todayThoughts, data)}
TodayEmbeddings(today, data) ==
    [id \in {today[k].id : k \in DOMAIN today} |->
        data[CHOOSE k \in DOMAIN today : today[k].id = id]]

\* mutant: an empty history is treated like any other
NoHistory_Ignored(history) == FALSE

\* `if not request.historyThoughts:`
NoHistory(history) == history = <<>>

(* the checks ahead of the try block, then step 1: one batched embedding    *)
(* call for today's thoughts                                                *)
CD_EmbedToday ==
    /\ op = "cross_date_insight" /\ pc = "start"
    /\ UNCHANGED <<op, api_key, request, conv_vars,
                   single_point_result, history_result,
                   bound, current_embedding,
                   single_point_worth, thoughts_needing_embedding,
                   missing_embeddings_response,
                   history_with_embeddings, computed_embeddings_for_frontend,
                   related_thoughts, history_worth, history_question,
                   history_thinking, worth_talking, final_question,
                   final_thinking, echoes, summary>>
    /\ IF ApiKeyMissing
       THEN /\ Raise("api_key_not_configured")
            /\ UNCHANGED <<calls, today_embeddings>>
       ELSE IF request.todayThoughts = <<>>
       THEN /\ response' = HttpError(400, "no_today_thoughts")
            /\ pc' = "done"
            /\ UNCHANGED <<calls, today_embeddings>>
       ELSE IF NoHistory(request.historyThoughts)
       THEN /\ response' = [NoResponse EXCEPT !.status = 200,
                                              !.summary = "no_history_summary"]
            /\ pc' = "done"
            /\ UNCHANGED <<calls, today_embeddings>>
       ELSE /\ calls' = Append(calls, "embed_today")
            /\ \/ /\ Raise("embeddings_create_failed")
                  /\ UNCHANGED today_embeddings
               \/ \E data \in EmbeddingData(Len(request.todayThoughts)) :
                    /\ today_embeddings'
                         = TodayEmbeddings(request.todayThoughts, data)
                    /\ pc' = "resolve_history"
                    /\ UNCHANGED response

\* step 2: the same partition and batched embedding as in check_insight
CD_ResolveHistory ==
    /\ op = "cross_date_insight" /\ pc = "resolve_history"
    /\ UNCHANGED <<op, api_key, request, conv_vars,
                   single_point_result, history_result,
                   bound, current_embedding,
                   today_embeddings, single_point_worth, related_thoughts,
                   history_worth, history_question, history_thinking,
                   worth_talking, final_question, final_thinking, echoes,
                   summary>>
    /\ LET needing  == NeedingFrom(request.historyThoughts, 1)
           supplied == SuppliedFrom(request.historyThoughts, 1)
       IN /\ thoughts_needing_embedding' = needing
          /\ calls' = calls \o HistoryEmbeddingCalls(needing)
          /\ \/ /\ needing # <<>>
                /\ Raise("embeddings_create_failed")
                /\ history_with_embeddings' = supplied
                /\ UNCHANGED <<computed_embeddings_for_frontend,
                               missing_embeddings_response>>
             \/ \E data \in EmbeddingData(Len(needing)) :
                  /\ missing_embeddings_response' = data
                  /\ computed_embeddings_for_frontend'
                       = ComputedEntries(needing, data)
                  /\ history_with_embeddings'
                       = supplied \o ComputedHistory(needing, data)
                  /\ pc' = "rank"
                  /\ UNCHANGED response

\* step 3: the ranking of the history against every today thought
CD_Rank ==
    /\ op = "cross_date_insight" /\ pc = "rank"
    /\ echoes' = EchoesFrom(request.todayThoughts, today_embeddings,
                            history_with_embeddings, 1)
    /\ pc' = "summary"
    /\ UNCHANGED <<op, api_key, request, conv_vars,
                   single_point_result, history_result,
                   calls, bound, current_embedding,
                   today_embeddings, single_point_worth,
                   thoughts_needing_embedding,
                   missing_embeddings_response, history_with_embeddings,
                   computed_embeddings_for_frontend, related_thoughts,
                   history_worth, history_question, history_thinking,
                   worth_talking, final_question, final_thinking, summary,
                   response>>

\* step 4: the summary completion when there are echoes, a fixed text else
CD_Summary ==
    /\ op = "cross_date_insight" /\ pc = "summary"
    /\ UNCHANGED <<op, api_key, request, conv_vars,
                   single_point_result, history_result,
                   bound, current_embedding,
                   today_embeddings, single_point_worth,
                   thoughts_needing_embedding,
                   missing_embeddings_response, history_with_embeddings,
                   computed_embeddings_for_frontend, related_thoughts,
                   history_worth, history_question, history_thinking,
                   worth_talking, final_question, final_thinking, echoes>>
    /\ IF echoes # <<>>
       THEN /\ calls' = calls \o CompletionCall("complete_summary")
            /\ \/ /\ Raise("completions_create_failed")
                  /\ UNCHANGED summary
               \/ /\ summary' = "llm_summary"
                  /\ pc' = "return"
                  /\ UNCHANGED response
       ELSE /\ summary' = "no_echo_summary"
            /\ pc' = "return"
            /\ UNCHANGED <<calls, response>>

\* return CrossDateInsightResponse(...)
CD_Return ==
    /\ op = "cross_date_insight" /\ pc = "return"
    /\ response' = [NoResponse EXCEPT
                      !.status = 200,
                      !.echoes = echoes,
                      !.summary = summary,
                      !.computedEmbeddings =
                          OrNone(computed_embeddings_for_frontend)]
    /\ pc' = "done"
    /\ UNCHANGED <<op, api_key, request, conv_vars,
                   single_point_result, history_result,
                   calls, bound, current_embedding,
                   today_embeddings, single_point_worth,
                   thoughts_needing_embedding,
                   missing_embeddings_response, history_with_embeddings,
                   computed_embeddings_for_frontend, related_thoughts,
                   history_worth, history_question, history_thinking,
                   worth_talking, final_question, final_thinking, echoes,
                   summary>>

-----------------------------------------------------------------------------
(* conversation *)

\* role = msg.get('role', 'user'), then the if / elif on it
NormalizeRole(role) ==
    LET given == IF role = None THEN "user" ELSE role
    IN IF given = "ai" THEN "assistant"
       ELSE IF given # "user" THEN "user"
       ELSE given

\* the loop over request.conversation: messages without content are dropped
RECURSIVE HistoryMessages(_, _)
HistoryMessages(conversation, i) ==
    IF i > Len(conversation) THEN <<>>
    ELSE (IF conversation[i].content # ""
          THEN <<[role |-> NormalizeRole(conversation[i].role),
                  content |-> conversation[i].content]>>
          ELSE <<>>)
         \o HistoryMessages(conversation, i + 1)

\* the messages list: system prompt, dialogue history, current message
BuildMessages(req) ==
    <<[role |-> "system", content |-> "system_prompt"]>>
    \o HistoryMessages(req.conversation, 1)
    \o (IF req.currentMessage # ""
        THEN <<[role |-> "user", content |-> req.currentMessage]>>
        ELSE <<>>)

\* the locals of check_insight and cross_date_insight
insight_vars ==
    <<bound, current_embedding, today_embeddings, single_point_worth,
      thoughts_needing_embedding, missing_embeddings_response,
      history_with_embeddings, computed_embeddings_for_frontend,
      related_thoughts, history_worth, history_question, history_thinking,
      worth_talking, final_question, final_thinking, echoes, summary,
      single_point_result, history_result>>

(* The handler up to `return StreamingResponse(generate(), ...)`.  The      *)
(* generator's body runs afterwards, as the response is sent.               *)
CV_Request ==
    /\ op = "conversation" /\ pc = "start"
    /\ UNCHANGED <<op, api_key, request, insight_vars, provider_chunks,
                   full_reply, events>>
    /\ IF ApiKeyMissing
       THEN /\ Raise("api_key_not_configured")
            /\ UNCHANGED <<calls, messages>>
       ELSE /\ messages' = BuildMessages(request)
            /\ calls' = calls \o CompletionCall("complete_stream")
            /\ \/ Raise("completions_create_failed")
               \/ /\ response' = [NoResponse EXCEPT !.status = 200]
                  /\ pc' = "streaming"

\* content.replace(old, new), token by token
Replace(content, old, new) ==
    [i \in DOMAIN content |-> IF content[i] = old THEN new ELSE content[i]]

\* encoded_content = content.replace('\n', '[NEWLINE]')
Encode(content) == Replace(content, "\n", "[NEWLINE]")

\* the consumer's decoding of a content payload: every [NEWLINE] marker is
\* replaced by a newline
Decode(payload) == Replace(payload, "[NEWLINE]", "\n")

\* the payloads of the events `data: <payload>\n\n`
DoneEvent == <<"[DONE]">>
ErrorEvent(message) == <<"[ERROR]", message>>

\* the content chunks of at most n tokens; <<>> is a chunk without content
RECURSIVE Chunks(_)
Chunks(n) ==
    IF n = 0 THEN {<<>>}
    ELSE Chunks(n - 1)
         \cup {Append(c, t) : c \in {d \in Chunks(n - 1) : Len(d) = n - 1},
                              t \in Tokens}

\* not full_reply.strip()
IsBlank(text) == \A i \in DOMAIN text : text[i] = "\n"

\* those left of conv_vars and calls by the generator
stream_frame == <<op, api_key, request, insight_vars, messages, calls, response>>

\* one iteration of `async for chunk in stream`
CV_Chunk ==
    /\ op = "conversation" /\ pc = "streaming"
    /\ Len(provider_chunks) < MaxChunks
    /\ \E content \in Chunks(MaxChunkLen) :
         /\ provider_chunks' = Append(provider_chunks, content)
         /\ IF content # <<>>
            THEN /\ full_reply' = full_reply \o content
                 /\ events' = Append(events, Encode(content))
            ELSE UNCHANGED <<full_reply, events>>
    /\ UNCHANGED <<pc, stream_frame>>

\* the stream is exhausted: the completion marker, then the empty-reply test
CV_EndOfStream ==
    /\ op = "conversation" /\ pc = "streaming"
    /\ events' = events \o <<DoneEvent>>
                   \o (IF IsBlank(full_reply)
                       THEN <<ErrorEvent("empty_reply")>> ELSE <<>>)
    /\ pc' = "done"
    /\ UNCHANGED <<provider_chunks, full_reply, stream_frame>>

\* the iteration raises: `except Exception` inside generate
CV_StreamError ==
    /\ op = "conversation" /\ pc = "streaming"
    /\ events' = Append(events, ErrorEvent("exception"))
    /\ pc' = "done"
    /\ UNCHANGED <<provider_chunks, full_reply, stream_frame>>

-----------------------------------------------------------------------------
(* Specifications *)

Next ==
    \/ CI_EmbedCurrent
    \/ CI_SinglePointCheck
    \/ CI_ResolveHistory
    \/ CI_Rank
    \/ CI_EchoCheck
    \/ CI_Merge
    \/ CI_QuestionOnly
    \/ CI_Return
    \/ CD_EmbedToday
    \/ CD_ResolveHistory
    \/ CD_Rank
    \/ CD_Summary
    \/ CD_Return
    \/ CV_Request

Spec == Init /\ [][Next]_vars

(* The ranking alone, on longer candidate lists: both handlers stand at     *)
(* their ranking step with a history whose notes all came with embeddings.  *)
InitRank ==
    /\ op \in {"check_insight", "cross_date_insight"}
    /\ api_key = TRUE
    /\ \E n \in 1..MaxRankHist : \E h \in Histories(n, RankVecs) :
         /\ history_with_embeddings = SuppliedFrom(h, 1)
         /\ IF op = "check_insight"
            THEN /\ request \in {[thought |-> t, todayThoughts |-> <<>>,
                                  historyThoughts |-> h] :
                                     t \in {1, MaxRankHist + 1}}
                 /\ current_embedding \in EmbedVecs
                 /\ today_embeddings = <<>>
                 /\ calls = <<"embed_thought", "complete_single_point">>
            ELSE /\ \E shift \in {0, MaxRankHist} :
                      request = [thought |-> 0,
                                 todayThoughts |-> Todays(RankToday, shift),
                                 historyThoughts |-> h]
                 /\ current_embedding = <<>>
                 /\ today_embeddings \in
                      {TodayEmbeddings(request.todayThoughts, data) :
                          data \in EmbeddingData(RankToday)}
                 /\ calls = <<"embed_today">>
    /\ pc = "rank"
    /\ bound = {}
    /\ single_point_worth = FALSE
    /\ thoughts_needing_embedding = <<>>
    /\ missing_embeddings_response = <<>>
    /\ computed_embeddings_for_frontend = <<>>
    /\ related_thoughts = <<>>
    /\ history_worth = FALSE
    /\ history_question = None
    /\ history_thinking = None
    /\ worth_talking = FALSE
    /\ final_question = None
    /\ final_thinking = None
    /\ echoes = <<>>
    /\ summary = None
    /\ response = NoResponse
    /\ single_point_result = None
    /\ history_result = None
    /\ messages = <<>>
    /\ provider_chunks = <<>>
    /\ full_reply = <<>>
    /\ events = <<>>

NextRank == CI_Rank \/ CD_Rank

SpecRank == InitRank /\ [][NextRank]_vars

(* The reply stream alone: the handler has returned its StreamingResponse   *)
(* and the generator is about to iterate over the provider's stream.        *)
InitStream ==
    /\ op = "conversation"
    /\ api_key = TRUE
    /\ request = [conversation |-> <<>>, currentMessage |-> "m"]
    /\ pc = "streaming"
    /\ messages = BuildMessages(request)
    /\ calls = <<"complete_stream">>
    /\ response = [NoResponse EXCEPT !.status = 200]
    /\ provider_chunks = <<>>
    /\ full_reply = <<>>
    /\ events = <<>>
    /\ bound = {}
    /\ current_embedding = <<>>
    /\ today_embeddings = <<>>
    /\ single_point_worth = FALSE
    /\ thoughts_needing_embedding = <<>>
    /\ missing_embeddings_response = <<>>
    /\ history_with_embeddings = <<>>
    /\ computed_embeddings_for_frontend = <<>>
    /\ related_thoughts = <<>>
    /\ history_worth = FALSE
    /\ history_question = None
    /\ history_thinking = None
    /\ worth_talking = FALSE
    /\ final_question = None
    /\ final_thinking = None
    /\ echoes = <<>>
    /\ summary = None
    /\ single_point_result = None
    /\ history_result = None

NextStream == CV_Chunk \/ CV_EndOfStream \/ CV_StreamError

SpecStream == InitStream /\ [][NextStream]_vars


-----------------------------------------------------------------------------
(* Properties *)

Count(seq, kind) == Cardinality({i \in DOMAIN seq : seq[i] = kind})

CompletionKinds ==
    {"complete_single_point", "complete_echo", "complete_question",
     "complete_summary"}

CompletionCount == Cardinality({i \in DOMAIN calls : calls[i] \in CompletionKinds})

TransportDetails == {"completions_create_failed", "embeddings_create_failed"}

Returned == pc = "done" /\ response.status = 200

\* the echo check ran and its verdict was worth-surfacing
EchoWorth == Count(calls, "complete_echo") = 1 /\ history_worth

\* check_insight has executed its merge step (and may have failed in it)
CI_PastMerge ==
    /\ op = "check_insight"
    /\ \/ pc \in {"question_only", "return"}
       \/ Returned
       \/ pc = "done" /\ response.detail = "UnboundLocalError_history_worth"
       \/ pc = "done" /\ Count(calls, "complete_question") = 1

(* C1: every check_insight request that reaches the merge step gets         *)
(* worthTalking = (single-note verdict worth) OR (echo verdict worth), the  *)
(* echo verdict counting as not worth when the echo check did not run,      *)
(* also when historyThoughts is empty.                                      *)
C1_MergeIsOr ==
    CI_PastMerge =>
        /\ response.detail # "UnboundLocalError_history_worth"
        /\ worth_talking = (single_point_worth \/ EchoWorth)

(* C2: in check_insight, when the single-note check reported worth=false    *)
(* and there are no echo matches (and no provider call failed), the         *)
(* operation returns normally with worthTalking=false, no question, and at  *)
(* most one completion call.                                                *)
C2_NotWorthNoEcho ==
    ( /\ op = "check_insight" /\ pc = "done"
      /\ Count(calls, "complete_single_point") = 1
      /\ ~single_point_worth
      /\ related_thoughts = <<>>
      /\ response.detail \notin TransportDetails )
    => /\ response.status = 200
       /\ response.worthTalking = FALSE
       /\ response.question = None
       /\ CompletionCount <= 1

-----------------------------------------------------------------------------
(* Ranking properties.  The candidates of a ranking are the entries of      *)
(* history_with_embeddings, in that list's order.                           *)

\* similarity > 0.5 and = 0.5, written on the rational itself
AboveHalf(sim) == 4 * sim[1] > sim[2]
ExactlyHalf(sim) == 4 * sim[1] = sim[2]

SimEq(s, t) == s[1] * t[2] = t[1] * s[2]

CandidateSim(query, i) ==
    cosine_similarity(query, history_with_embeddings[i].embedding)

\* the candidates a ranking for note `id` with vector `query` may keep
Eligible(query, id) ==
    {i \in DOMAIN history_with_embeddings :
        /\ history_with_embeddings[i].thought # id
        /\ AboveHalf(CandidateSim(query, i))}

\* the ranking of check_insight has run
CI_Ranked == op = "check_insight" /\ pc \in {"echo_check", "merge"}

\* the ranking of cross_date_insight has run
CD_Ranked == op = "cross_date_insight" /\ pc = "summary"

\* the matches of today note `id`, or none when it has no echoes entry
MatchesOf(id) ==
    IF \E e \in DOMAIN echoes : echoes[e].todayThought = id
    THEN echoes[CHOOSE e \in DOMAIN echoes :
                   echoes[e].todayThought = id].relatedThoughts
    ELSE <<>>

TodayIds == {request.todayThoughts[k].id : k \in DOMAIN request.todayThoughts}

CandidateSims(query) ==
    [i \in DOMAIN history_with_embeddings |-> CandidateSim(query, i)]

\* position of candidate i among the candidates E: the number of them that
\* go ahead of it, by higher similarity or, at equal similarity, by coming
\* earlier in the candidate list
RankOf(sims, E, i) ==
    Cardinality({j \in E : \/ SimGT(sims[j], sims[i])
                           \/ SimEq(sims[j], sims[i]) /\ j < i})

Min(a, b) == IF a < b THEN a ELSE b

\* `matches` is the top five of the candidates of `query`, note `id` excluded
IsTopFive(matches, query, id, field) ==
    LET sims == CandidateSims(query)
        E    == {i \in DOMAIN history_with_embeddings :
                    /\ history_with_embeddings[i].thought # id
                    /\ AboveHalf(sims[i])}
    IN /\ Len(matches) = Min(TopK, Cardinality(E))
       /\ \A i \in E :
             LET r == RankOf(sims, E, i)
             IN r < TopK =>
                  /\ matches[r + 1][field] = history_with_embeddings[i].thought
                  /\ matches[r + 1].similarity = sims[i]

-----------------------------------------------------------------------------
(* C6: comparing two vectors of different lengths fails; it never yields    *)
(* 0.0, so a ranking that meets a history fingerprint whose length differs  *)
(* from the query's aborts and the handler does not get past it.            *)
C6_MismatchAborts ==
    /\ CI_Ranked =>
        \A i \in DOMAIN history_with_embeddings :
            history_with_embeddings[i].thought # request.thought
               => Len(history_with_embeddings[i].embedding)
                     = Len(current_embedding)
    /\ CD_Ranked =>
        \A id \in TodayIds : \A i \in DOMAIN history_with_embeddings :
            history_with_embeddings[i].thought # id
               => Len(history_with_embeddings[i].embedding)
                     = Len(today_embeddings[id])

-----------------------------------------------------------------------------
(* History resolution *)

\* the positions of the history notes that came without an embedding
Lacking ==
    IF op = "conversation" THEN {}
    ELSE {i \in DOMAIN request.historyThoughts :
             request.historyThoughts[i].embedding = <<>>}

\* the handler is past its history resolution without having failed in it
Resolved ==
    \/ pc \in {"rank", "echo_check", "summary", "question_only", "return"}
    \/ pc = "merge" /\ request.historyThoughts # <<>>
    \/ Returned /\ request.historyThoughts # <<>>

(* C7: resolving the history issues no embedding call for history notes     *)
(* when every history note carries a fingerprint, and exactly one call,     *)
(* whatever their number, when one or more lack it.                         *)
C7_OneBatchedCall ==
    /\ Lacking = {} => Count(calls, "embed_history") = 0
    /\ Count(calls, "embed_history") <= 1
    /\ (Resolved /\ Lacking # {}) => Count(calls, "embed_history") = 1

\* C7 witness: two or more notes lacked a fingerprint and were resolved
C7_Witness ==
    /\ Resolved
    /\ Cardinality(Lacking) >= 2
    /\ Count(calls, "embed_history") = 1

\* the k-th note, in request order, that lacks an embedding is note i
IsKthLacking(i, k) ==
    /\ i \in Lacking
    /\ Cardinality({j \in Lacking : j <= i}) = k

(* C8: after the resolution every history note has exactly one fingerprint  *)
(* among the candidates; a note sent with a fingerprint is compared with    *)
(* that vector, and computedEmbeddings holds exactly one entry per note     *)
(* that lacked one, with the note's id and the vector the provider computed *)
(* for it, none for the other notes, and is absent when nothing was         *)
(* computed.                                                                *)
C8_ResolutionFrame ==
    /\ Resolved =>
        /\ Len(history_with_embeddings) = Len(request.historyThoughts)
        /\ Len(computed_embeddings_for_frontend) = Cardinality(Lacking)
        /\ \A i \in DOMAIN request.historyThoughts :
              LET note == request.historyThoughts[i]
                  cand == {j \in DOMAIN history_with_embeddings :
                              history_with_embeddings[j].thought = note.id}
                  comp == {j \in DOMAIN computed_embeddings_for_frontend :
                              computed_embeddings_for_frontend[j].thoughtId
                                 = note.id}
              IN /\ Cardinality(cand) = 1
                 /\ IF i \in Lacking
                    THEN /\ Cardinality(comp) = 1
                         /\ \A j \in comp : \A c \in cand : \A k \in 1..Len(missing_embeddings_response) :
                               IsKthLacking(i, k) =>
                                 /\ computed_embeddings_for_frontend[j].embedding
                                       = missing_embeddings_response[k]
                                 /\ history_with_embeddings[c].embedding
                                       = missing_embeddings_response[k]
                    ELSE /\ comp = {}
                         /\ \A c \in cand :
                               history_with_embeddings[c].embedding
                                  = note.embedding
    /\ (Returned /\ request.historyThoughts # <<>>) =>
        /\ response.computedEmbeddings.present = (Lacking # {})
        /\ response.computedEmbeddings.value = computed_embeddings_for_frontend

\* C8 witness: check_insight returned; a note that came with a fingerprint
\* stands in request order between two that lacked one, and the provider
\* gave these two different vectors
C8_Witness ==
    /\ op = "check_insight" /\ Returned
    /\ Len(request.historyThoughts) >= 3
    /\ {1, 3} \subseteq Lacking /\ 2 \notin Lacking
    /\ response.computedEmbeddings.present
    /\ Len(missing_embeddings_response) = 2
    /\ missing_embeddings_response[1] # missing_embeddings_response[2]

-----------------------------------------------------------------------------
(* C9: in check_insight, whenever the echo check ran and its verdict was    *)
(* worth-surfacing, the returned question is the echo verdict's question    *)
(* and the returned thinking is present and carries its rationale.          *)
C9_EchoWins ==
    (op = "check_insight" /\ Returned /\ EchoWorth) =>
        /\ response.question = history_question
        /\ response.thinking # None
        /\ response.thinking = "echo_thinking"

(* C10: an execution of check_insight makes at most three completion calls, *)
(* one each of the single-note check, the echo check and the question-only  *)
(* generation, and produces at most one question: the echo verdict's        *)
(* question and the question-only call never both occur, and the question   *)
(* returned is the one produced.                                            *)
C10_OneQuestionThreeCalls ==
    op = "check_insight" =>
        /\ CompletionCount <= 3
        /\ \A kind \in CompletionKinds : Count(calls, kind) <= 1
        /\ ~(EchoWorth /\ Count(calls, "complete_question") = 1)
        /\ Returned =>
              response.question
                 = (IF EchoWorth THEN history_question
                    ELSE IF Count(calls, "complete_question") = 1
                         THEN "single_question" ELSE None)

\* C10 witness: all three completion calls were made and a question returned
C10_Witness ==
    /\ op = "check_insight" /\ Returned
    /\ CompletionCount = 3
    /\ response.question = "single_question"

-----------------------------------------------------------------------------
\* the exceptions a verdict parse can raise
ParseErrors == {"JSONDecodeError", "AttributeError"}

(* C11: when the text of the single-note verdict, or of the echo verdict,  *)
(* does not decode to a verdict even after fence stripping, that check's    *)
(* verdict is not worth talking about, and check_insight never fails with   *)
(* the parse's exception.                                                   *)
C11_UndecodableIsNotWorth ==
    op = "check_insight" =>
        /\ response.detail \notin ParseErrors
        /\ (single_point_result = "undecodable" => ~single_point_worth)
        /\ (history_result = "undecodable" => ~history_worth)

\* C11 witness: both verdict texts were undecodable and the request returned
C11_Witness ==
    /\ op = "check_insight" /\ Returned
    /\ single_point_result = "undecodable"
    /\ history_result = "undecodable"
    /\ ~response.worthTalking

(* C12: a check_insight response with worthTalking false carries no        *)
(* question and no thinking; and while neither the single-note check nor    *)
(* the echo check has found the note worth surfacing, no question-only      *)
(* call is made, no question exists, and a response says not worth.         *)
C12_NotWorthNoQuestion ==
    op = "check_insight" =>
        /\ (Returned /\ ~response.worthTalking) =>
              /\ response.question = None
              /\ response.thinking = None
        /\ (~single_point_worth /\ ~EchoWorth) =>
              /\ Count(calls, "complete_question") = 0
              /\ final_question = None
              /\ Returned => ~response.worthTalking

\* C12 witness: both checks answered with a decodable "not worth" verdict
C12_Witness ==
    /\ op = "check_insight" /\ Returned
    /\ single_point_result = "verdict" /\ history_result = "verdict"
    /\ ~single_point_worth /\ ~history_worth
    /\ ~response.worthTalking
    /\ response.question = None

\* the kinds of embedding call check_insight makes
CI_EmbeddingKinds == {"embed_thought", "embed_history"}

(* C13: when an embedding call of check_insight fails, for the current     *)
(* note or for the batch of history notes lacking a fingerprint, the        *)
(* operation ends there with an error: the response has status 500 and      *)
(* carries no verdict, no question, no thinking and no computed             *)
(* fingerprints, and no fingerprint of the batch was computed.              *)
C13_EmbeddingFailureIsFatal ==
    (op = "check_insight" /\ response.detail = "embeddings_create_failed") =>
        /\ pc = "done"
        /\ response.status = 500
        /\ ~response.worthTalking
        /\ response.question = None /\ response.thinking = None
        /\ ~response.computedEmbeddings.present
        /\ computed_embeddings_for_frontend = <<>>
        /\ calls[Len(calls)] \in CI_EmbeddingKinds
        /\ worth_talking = FALSE /\ final_question = None

\* C13 witness: the history batch failed after a single-note verdict of
\* worth-surfacing, in a history that also supplied a fingerprint
C13_Witness ==
    /\ op = "check_insight"
    /\ response.detail = "embeddings_create_failed"
    /\ calls[Len(calls)] = "embed_history"
    /\ single_point_worth
    /\ history_with_embeddings # <<>>
    /\ Len(thoughts_needing_embedding) >= 2

(* C14: when a completion call of check_insight raises, the operation ends *)
(* there with an error: the response has status 500 and carries no verdict, *)
(* no question, no thinking and no fingerprints; the call that failed is    *)
(* the last call made and it was made once.                                 *)
C14_CompletionFailureIsFatal ==
    (op = "check_insight" /\ response.detail = "completions_create_failed") =>
        /\ pc = "done"
        /\ response.status = 500
        /\ ~response.worthTalking
        /\ response.question = None /\ response.thinking = None
        /\ ~response.computedEmbeddings.present
        /\ calls[Len(calls)] \in CompletionKinds
        /\ Count(calls, calls[Len(calls)]) = 1

\* C14 witness: the echo completion failed after the single-note check found
\* the note worth surfacing and after fingerprints were computed for history
C14_Witness ==
    /\ op = "check_insight"
    /\ response.detail = "completions_create_failed"
    /\ calls[Len(calls)] = "complete_echo"
    /\ single_point_worth
    /\ computed_embeddings_for_frontend # <<>>

(* C15: without a configured API key, check_insight, cross_date_insight    *)
(* and conversation fail at their first step with HTTP 500 "API key not     *)
(* configured", having made no embedding, completion or streaming call and  *)
(* having built nothing.                                                    *)
C15_NoKeyNoCall ==
    ~api_key =>
        /\ calls = <<>>
        /\ pc \in {"start", "done"}
        /\ pc = "done" => response = HttpError(500, "api_key_not_configured")
        /\ messages = <<>> /\ events = <<>>
        /\ current_embedding = <<>> /\ today_embeddings = <<>>

\* C15 witness: a conversation request with dialogue history was refused
C15_Witness ==
    /\ ~api_key /\ pc = "done"
    /\ op = "conversation"
    /\ request.conversation # <<>> /\ request.currentMessage # ""
    /\ response.status = 500

(* C16: cross_date_insight, with a key configured, at least one today note *)
(* and an empty history, makes no embedding call and no completion call     *)
(* and returns status 200 with echoes = [] and the fixed summary for a      *)
(* missing history.                                                         *)
C16_EmptyHistoryDefault ==
    (/\ op = "cross_date_insight" /\ api_key
     /\ request.todayThoughts # <<>>
     /\ request.historyThoughts = <<>>) =>
        /\ calls = <<>>
        /\ pc \in {"start", "done"}
        /\ pc = "done" =>
              /\ response.status = 200
              /\ response.echoes = <<>>
              /\ response.summary = "no_history_summary"
              /\ response.detail = None

\* C16 witness: such a request, with the most today notes, has returned
C16_Witness ==
    /\ op = "cross_date_insight" /\ api_key /\ pc = "done"
    /\ Len(request.todayThoughts) = MaxToday
    /\ request.historyThoughts = <<>>
    /\ response.summary = "no_history_summary"

-----------------------------------------------------------------------------
(* The reply stream *)

\* the generator has ended because the provider's stream was exhausted
StreamCompleted ==
    /\ op = "conversation" /\ pc = "done"
    /\ events # <<>>
    /\ events[Len(events)] # ErrorEvent("exception")

\* the provider emitted no content at all
NoContent == \A i \in DOMAIN provider_chunks : provider_chunks[i] = <<>>

(* C17: when the provider's stream completes having emitted no content,    *)
(* the reply stream ends with the empty-reply error event and contains no   *)
(* [DONE] event.                                                            *)
C17_EmptyReplyWithoutDone ==
    (StreamCompleted /\ NoContent) =>
        /\ events[Len(events)] = ErrorEvent("empty_reply")
        /\ \A i \in DOMAIN events : events[i] # DoneEvent

-----------------------------------------------------------------------------
(* The dialogue history sent to the provider *)

HasContent(msg) == msg.content # ""

\* the supplied messages that are forwarded, in order
ForwardedSupplied == SelectSeq(request.conversation, HasContent)

\* the role the specification gives a forwarded message
SpecifiedRole(role) == IF role \in {"user", "assistant"} THEN role ELSE "user"

(* C18: every dialogue-history message forwarded to the provider has role  *)
(* user or assistant; one supplied with role user or assistant keeps it,    *)
(* and one supplied with any other role, or none, is forwarded as user.     *)
C18_RolesNormalized ==
    (op = "conversation" /\ messages # <<>>) =>
        \A i \in DOMAIN ForwardedSupplied :
            /\ messages[i + 1].role \in {"user", "assistant"}
            /\ messages[i + 1].role = SpecifiedRole(ForwardedSupplied[i].role)

NonEmpty(chunk) == chunk # <<>>

\* the provider's chunks that carry content, in order
ContentChunks == SelectSeq(provider_chunks, NonEmpty)

(* C19: for every content chunk of the provider, the payload sent for it   *)
(* contains no newline, and decoding the payload, each [NEWLINE] marker     *)
(* replaced by a newline, gives back the chunk's text.                      *)
C19_EncodingRoundTrip ==
    op = "conversation" =>
        \A i \in DOMAIN ContentChunks :
            /\ \A k \in DOMAIN events[i] : events[i][k] # "\n"
            /\ Decode(events[i]) = ContentChunks[i]

-----------------------------------------------------------------------------
(* The echo check *)

EchoCalls == Count(calls, "complete_echo")

(* C20: check_insight issues the echo completion call if and only if the   *)
(* ranking produced at least one match; when the history is empty or no     *)
(* candidate exceeds the threshold, no echo call is made and the merge      *)
(* takes the echo verdict as not worth: it yields the single-note verdict.  *)
C20_EchoCallIffMatch ==
    op = "check_insight" =>
        /\ EchoCalls >= 1 => related_thoughts # <<>>
        /\ CI_PastMerge => (EchoCalls = 1 <=> related_thoughts # <<>>)
        /\ (CI_PastMerge /\ related_thoughts = <<>>) =>
              /\ response.detail # "UnboundLocalError_history_worth"
              /\ worth_talking = single_point_worth

-----------------------------------------------------------------------------
(* The question-only call *)

QuestionCalls == Count(calls, "complete_question")

\* check_insight is past the place of its question-only call, or has failed
\* in the merge before it
CI_PastQuestion ==
    /\ op = "check_insight"
    /\ \/ pc = "return"
       \/ Returned
       \/ pc = "done" /\ response.detail = "UnboundLocalError_history_worth"

\* position of the only call of a kind in calls, 0 when there is none
CallAt(kind) ==
    IF Count(calls, kind) = 0 THEN 0
    ELSE CHOOSE i \in DOMAIN calls : calls[i] = kind

(* C21: check_insight issues the question-only completion call exactly     *)
(* when the single-note verdict is worth and the echo verdict is not, the    *)
(* echo check not having run included; the call comes after the single-note  *)
(* check and after the echo check, and the question returned is its output.  *)
C21_QuestionOnlyCall ==
    op = "check_insight" =>
        /\ QuestionCalls <= 1
        /\ QuestionCalls = 1 =>
              /\ single_point_worth /\ ~EchoWorth
              /\ CallAt("complete_single_point") \in 1..(CallAt("complete_question") - 1)
              /\ CallAt("complete_echo") < CallAt("complete_question")
        /\ CI_PastQuestion =>
              (QuestionCalls = 1 <=> (single_point_worth /\ ~EchoWorth))
        /\ (Returned /\ QuestionCalls = 1) =>
              response.question = "single_question"

-----------------------------------------------------------------------------
(* The end of the reply stream *)

\* the events that end a reply stream
IsTerminal(event) ==
    event \in {DoneEvent, ErrorEvent("empty_reply"), ErrorEvent("exception")}

\* the first events of the stream are the content chunks, encoded, in order
ContentEventsInOrder ==
    /\ Len(events) >= Len(ContentChunks)
    /\ \A i \in DOMAIN ContentChunks : events[i] = Encode(ContentChunks[i])

(* C22: the events of a reply stream are the provider's non-empty content   *)
(* chunks in provider order, then, once the stream has ended, exactly one    *)
(* terminal event and nothing after it; when the provider completed without  *)
(* an error that last event is [DONE].                                       *)
C22_OneTerminalEvent ==
    op = "conversation" =>
        /\ ContentEventsInOrder
        /\ pc = "streaming" => Len(events) = Len(ContentChunks)
        /\ pc = "done" =>
              /\ Len(events) = Len(ContentChunks) + 1
              /\ IsTerminal(events[Len(events)])
        /\ StreamCompleted => events[Len(events)] = DoneEvent

=============================================================================
